---- MODULE Spec2Model ----
(***************************************************************************)
(* Model of the useMcpHost hook (src/src/ui/hooks/useMcpHost.ts): the      *)
(* client half of the MCP Apps postMessage protocol.  State is the hook's  *)
(* refs and React state, the document side effects, the envelopes posted   *)
(* to window.parent and the invocations of the caller-supplied callbacks.  *)
(* One step is one macrotask of the page's event loop: a callTool, one     *)
(* inbound message event, one timer expiry or one settlement of the        *)
(* cleanup promise, each together with the microtasks it triggers.         *)
(* Caller-supplied callbacks other than onTeardown are taken to return     *)
(* normally.                                                               *)
(***************************************************************************)
EXTENDS Integers, Sequences, FiniteSets, TLC

\* ---------------------------------------------------------------- bounds
MaxCalls == 2       \* callTool invocations in one run
MaxInbound == 2     \* message events delivered in one run

\* ------------------------------------------------------- JS value domain
Undef == "undefined"            \* a field that is absent / undefined
NoId == -1                      \* data.id === undefined
NoMethod == "undefined"         \* data.method === undefined
Absent == "<absent>"            \* key not present in a variables mapping
EmptyObject == "{}"

StyleNames == {"--bg", "--fg"}
NoVars == [n \in StyleNames |-> Absent]

NoError == [kind |-> "undefined", message |-> Undef]
NullError == [kind |-> "null", message |-> Undef]
ErrObj(m) == [kind |-> "object", message |-> m]

NoContext == [theme |-> Undef, variables |-> NoVars, appState |-> Undef]
NoParams == [hostContext |-> NoContext, theme |-> Undef, variables |-> NoVars,
             arguments |-> Undef, content |-> Undef]

Msg(id, method, result, error, params) ==
    [isObject |-> TRUE, id |-> id, method |-> method, result |-> result,
     error |-> error, params |-> params]

\* a payload that is null or not an object
NonObject ==
    [isObject |-> FALSE, id |-> NoId, method |-> NoMethod, result |-> Undef,
     error |-> NoError, params |-> NoParams]

\* ------------------------------------------------- inputs (small sets)
ToolCalls == {<<"todo_add", "{text:milk}">>}

ResponseIds == 0 .. MaxCalls
HostRequestIds == {NoId, 1, 2}

BgOnly == [n \in StyleNames |-> IF n = "--bg" THEN "v1" ELSE Absent]
FgOnly == [n \in StyleNames |-> IF n = "--bg" THEN "" ELSE "v2"]

FullContext == [theme |-> "light", variables |-> BgOnly, appState |-> "S1"]

\* responses: a result, an error object (with, without or with an empty
\* message), both, a null error next to a result, and a response that also
\* carries a method
ResponseMessages ==
    { Msg(i, NoMethod, r, NoError, NoParams) : i \in ResponseIds, r \in {"R1", "R2"} }
    \cup { Msg(i, NoMethod, Undef, e, NoParams) :
             i \in ResponseIds, e \in {ErrObj("boom"), ErrObj(Undef), ErrObj("")} }
    \cup { Msg(i, NoMethod, "R1", e, NoParams) :
             i \in ResponseIds, e \in {NullError, ErrObj("boom")} }
    \cup { Msg(i, m, "R1", NoError, NoParams) :
             i \in ResponseIds, m \in {"ui/initialize", "ui/resource-teardown"} }

InitializeMessages ==
    { Msg(i, "ui/initialize", Undef, NoError, NoParams) : i \in {2} }
    \cup { Msg(1, "ui/initialize", Undef, NoError,
               [NoParams EXCEPT !.hostContext = FullContext]) }

ToolInputMessages ==
    { Msg(NoId, "ui/notifications/tool-input", Undef, NoError,
          [NoParams EXCEPT !.arguments = "A1"]) }

ToolResultMessages ==
    { Msg(NoId, "ui/notifications/tool-result", Undef, NoError,
          [NoParams EXCEPT !.content = "P1"]) }

ContextChangedMessages ==
    { Msg(NoId, "ui/notifications/host-context-changed", Undef, NoError,
          [NoParams EXCEPT !.theme = "sepia", !.variables = FgOnly]) }

TeardownMessages ==
    { Msg(i, "ui/resource-teardown", Undef, NoError, NoParams) : i \in HostRequestIds }

OtherMessages ==
    { NonObject,
      Msg(NoId, NoMethod, Undef, NoError, NoParams),
      Msg(1, NoMethod, Undef, NoError, NoParams),
      Msg(NoId, "ui/unknown", Undef, NoError, NoParams),
      Msg(1, "x/tool-y", Undef, NoError, NoParams) }

InboundMessages ==
    ResponseMessages \cup InitializeMessages \cup ToolInputMessages
    \cup ToolResultMessages \cup ContextChangedMessages \cup TeardownMessages
    \cup OtherMessages

\* ---------------------------------------------------------------- state
VARIABLES
    config,              \* which optional callbacks the caller registered
    isReady,             \* useState(false)
    requestIdRef,        \* useRef(1): next request id
    pendingRequestsRef,  \* keys of the Map id -> {resolve, reject}
    timers,              \* ids whose setTimeout has not fired yet
    outbound,            \* envelopes posted to window.parent, in order
    settled,             \* per request id: the resolve/reject invocations
    toolResultCalls,     \* invocations of onToolResult
    toolInputCalls,      \* invocations of onToolInput
    themeAttr,           \* document data-theme attribute
    themeCalls,          \* invocations of onThemeChange
    styleProps,          \* root.style custom properties
    appStateCalls,       \* invocations of onAppState
    hooksAwaited,        \* per teardown id: cleanup promises that will settle
    hooksStuck,          \* per teardown id: cleanup promises that never settle
    hookCalls,           \* invocations of onTeardown
    initRequests,        \* history: ui/initialize messages handled, per id
    teardownRequests,    \* history: teardown requests handled, per id
    inboundCount,        \* history: message events delivered
    last                 \* history: the step just taken, when the program
                         \* state keeps no trace of it (else NoStep)

vars == <<config, isReady, requestIdRef, pendingRequestsRef, timers, outbound,
          settled, toolResultCalls, toolInputCalls, themeAttr, themeCalls,
          styleProps, appStateCalls, hooksAwaited, hooksStuck, hookCalls,
          initRequests, teardownRequests, inboundCount, last>>

RequestIds == 1 .. MaxCalls

\* every optional callback registered, or none
Configs ==
    { [onToolInput |-> b, onToolResult |-> b, onThemeChange |-> b,
       onTeardown |-> b, onAppState |-> b] : b \in BOOLEAN }

NoStep == [kind |-> "none", id |-> NoId]
Step(k, i) == [kind |-> k, id |-> i]

Init ==
    /\ config \in Configs
    /\ isReady = FALSE
    /\ requestIdRef = 1
    /\ pendingRequestsRef = {}
    /\ timers = {}
    /\ outbound = <<>>
    /\ settled = [i \in RequestIds |-> <<>>]
    /\ toolResultCalls = <<>>
    /\ toolInputCalls = <<>>
    /\ themeAttr = Undef
    /\ themeCalls = <<>>
    /\ styleProps = [n \in StyleNames |-> Absent]
    /\ appStateCalls = <<>>
    /\ hooksAwaited = [i \in HostRequestIds |-> 0]
    /\ hooksStuck = [i \in HostRequestIds |-> 0]
    /\ hookCalls = 0
    /\ initRequests = [i \in HostRequestIds |-> 0]
    /\ teardownRequests = [i \in HostRequestIds |-> 0]
    /\ inboundCount = 0
    /\ last = NoStep

\* ------------------------------------------------------------- helpers
Truthy(v) == v \notin {Undef, ""}

\* sendMessage: window.parent.postMessage(message, "*")
sendMessage(out, message) == Append(out, message)

RequestEnvelope(id, method, name, args) ==
    [id |-> id, method |-> method, result |-> Undef, name |-> name, arguments |-> args]

\* a response envelope {jsonrpc, id, result}
ResponseEnvelope(id, result) ==
    [id |-> id, method |-> NoMethod, result |-> result, name |-> Undef, arguments |-> Undef]

sendNotificationDropped(out, method) == out

\* sendNotification: {jsonrpc, method, params} with no id
sendNotification(out, method) ==
    sendMessage(out, [id |-> NoId, method |-> method, result |-> Undef,
                      name |-> Undef, arguments |-> Undef])

Capabilities == "capabilities"

NormalizeThemeRaw(theme) == theme

\* theme === "light" ? "light" : "dark"
NormalizeTheme(theme) == IF theme = "light" THEN "light" ELSE "dark"

applyStyleVariablesAll(props, variables) ==
    [n \in StyleNames |-> IF variables[n] # Absent THEN variables[n] ELSE props[n]]

\* applyStyleVariables: setProperty for every entry with a truthy value
applyStyleVariables(props, variables) ==
    [n \in StyleNames |->
        IF variables[n] # Absent /\ Truthy(variables[n]) THEN variables[n] ELSE props[n]]

IsResponseLoose(data) == data.id # NoId

IsResponseMethodFirst(data) ==
    /\ data.method = NoMethod
    /\ data.id # NoId
    /\ (data.result # Undef \/ data.error.kind # "undefined")

\* the response test of handleMessage
IsResponse(data) ==
    /\ data.id # NoId
    /\ (data.result # Undef \/ data.error.kind # "undefined")

\* data.error.message || "Unknown error"
ErrorMessage(error) == IF Truthy(error.message) THEN error.message ELSE "Unknown error"

Resolved(v) == [kind |-> "resolved", value |-> v]
Rejected(m) == [kind |-> "rejected", value |-> m]

\* settles the oldest pending request, whatever id the event carries
SettleOldest(id, outcome) ==
    IF pendingRequestsRef = {} THEN settled
    ELSE LET o == CHOOSE j \in pendingRequestsRef : \A k \in pendingRequestsRef : j <= k
         IN [settled EXCEPT ![o] = Append(@, outcome)]

\* resolve / reject of the promise created by sendRequest for request id
Settle(id, outcome) == [settled EXCEPT ![id] = Append(@, outcome)]

callToolContinuationSilent(id, outcome) == toolResultCalls

callToolContinuationAlways(id, outcome) ==
    IF settled[id] = <<>> /\ config.onToolResult
    THEN Append(toolResultCalls, [payload |-> outcome.value, call |-> id])
    ELSE toolResultCalls

\* the continuation of callTool after its await, run when the promise
\* settles for the first time: onToolResult(result) on fulfilment only
callToolContinuation(id, outcome) ==
    IF settled[id] = <<>> /\ outcome.kind = "resolved" /\ config.onToolResult
    THEN Append(toolResultCalls, [payload |-> outcome.value, call |-> id])
    ELSE toolResultCalls

DocumentUnchanged == UNCHANGED <<themeAttr, themeCalls, styleProps, appStateCalls>>
TeardownUnchanged == UNCHANGED <<hooksAwaited, hooksStuck, hookCalls, teardownRequests>>
CorrelatorUnchanged == UNCHANGED <<requestIdRef, pendingRequestsRef, timers, settled>>

Delivered ==
    /\ inboundCount < MaxInbound
    /\ inboundCount' = inboundCount + 1

\* ------------------------------------------------------------- actions
RequestIdReused(current) == current

\* requestIdRef.current++ : the value left in the ref
RequestIdAfter(current) == current + 1

RegisterPendingSkipped(pending, id) == pending

\* pendingRequestsRef.current.set(id, {resolve, reject})
RegisterPending(pending, id) == pending \cup {id}

\* callTool -> sendRequest("tools/call", {name, arguments})
callTool(toolName, args) ==
    /\ requestIdRef <= MaxCalls
    /\ LET id == requestIdRef IN
        /\ requestIdRef' = RequestIdAfter(requestIdRef)
        /\ pendingRequestsRef' = RegisterPending(pendingRequestsRef, id)
        /\ outbound' = sendMessage(outbound, RequestEnvelope(id, "tools/call", toolName, args))
        /\ timers' = timers \cup {id}
        /\ last' = NoStep
    /\ UNCHANGED <<config, isReady, settled, toolResultCalls, toolInputCalls,
                   initRequests, inboundCount>>
    /\ DocumentUnchanged /\ TeardownUnchanged

TimeoutRemovesAlways(id) == TRUE

TimeoutRemovesInverted(id) == id \notin pendingRequestsRef

\* the setTimeout callback of sendRequest: pendingRequestsRef.current.has(id)
TimeoutRemoves(id) == id \in pendingRequestsRef

TimeoutKeeps(id) == pendingRequestsRef

TimeoutClears(id) == {}

TimeoutDeletesOlder(id) == {j \in pendingRequestsRef : j > id}

\* the setTimeout callback of sendRequest: pendingRequestsRef.current.delete(id)
TimeoutDeletes(id) == pendingRequestsRef \ {id}

RequestTimeout(id) ==
    /\ id \in timers
    /\ timers' = timers \ {id}
    /\ IF TimeoutRemoves(id)
       THEN /\ pendingRequestsRef' = TimeoutDeletes(id)
            /\ settled' = Settle(id, Rejected("Request timeout"))
            /\ toolResultCalls' = callToolContinuation(id, Rejected("Request timeout"))
            /\ last' = NoStep
       ELSE /\ UNCHANGED <<pendingRequestsRef, settled, toolResultCalls>>
            /\ last' = NoStep
    /\ UNCHANGED <<config, isReady, requestIdRef, outbound, toolInputCalls,
                   initRequests, inboundCount>>
    /\ DocumentUnchanged /\ TeardownUnchanged

\* handleMessage: if (!data || typeof data !== "object") return
HandleNonObject(data) ==
    /\ Delivered
    /\ ~data.isObject
    /\ last' = Step("ignored", NoId)
    /\ UNCHANGED <<config, isReady, outbound, toolResultCalls, toolInputCalls, initRequests>>
    /\ CorrelatorUnchanged /\ DocumentUnchanged /\ TeardownUnchanged

ResponseOutcomeIgnoresError(data) == Resolved(data.result)

ResponseOutcomeResultFirst(data) ==
    IF data.result # Undef
    THEN Resolved(data.result)
    ELSE Rejected(ErrorMessage(data.error))

\* the outcome a matching response settles its request with
ResponseOutcome(data) ==
    IF data.error.kind = "object"
    THEN Rejected(ErrorMessage(data.error))
    ELSE Resolved(data.result)

EverAllocated(data) == data.id \in RequestIds /\ data.id < requestIdRef

\* pendingRequestsRef.current.get(data.id) finds a record
PendingFor(data) == data.id \in pendingRequestsRef

\* handleMessage, response branch
HandleResponse(data) ==
    /\ Delivered
    /\ data.isObject /\ IsResponse(data)
    /\ IF PendingFor(data)
       THEN /\ pendingRequestsRef' = pendingRequestsRef \ {data.id}
            /\ settled' = Settle(data.id, ResponseOutcome(data))
            /\ toolResultCalls' = callToolContinuation(data.id, ResponseOutcome(data))
            /\ last' = NoStep
       ELSE /\ UNCHANGED <<pendingRequestsRef, settled, toolResultCalls>>
            /\ last' = Step("response-dropped", data.id)
    /\ UNCHANGED <<config, isReady, requestIdRef, timers, outbound, toolInputCalls,
                   initRequests>>
    /\ DocumentUnchanged /\ TeardownUnchanged

InitializeSendsSwapped(out, id) ==
    sendMessage(sendNotification(out, "ui/notifications/initialized"),
                ResponseEnvelope(id, Capabilities))

\* ui/initialize branch, the two posts: the capabilities response, then
\* sendNotification("ui/notifications/initialized", {})
InitializeSends(out, id) ==
    sendNotification(sendMessage(out, ResponseEnvelope(id, Capabilities)),
                     "ui/notifications/initialized")

IsInitializeLoose(data) == data.method # NoMethod

IsInitializeOnce(data) == data.method = "ui/initialize" /\ ~isReady

\* data.method === "ui/initialize"
IsInitialize(data) == data.method = "ui/initialize"

\* applyTheme: the data-theme attribute and onThemeChange?.(...)
applyTheme(theme) ==
    /\ themeAttr' = NormalizeTheme(theme)
    /\ themeCalls' = IF config.onThemeChange
                     THEN Append(themeCalls, NormalizeTheme(theme))
                     ELSE themeCalls

\* ui/initialize branch: theme and style variables of params.hostContext
InitializeContext(data) ==
    LET hostContext == data.params.hostContext IN
    /\ IF Truthy(hostContext.theme)
       THEN applyTheme(hostContext.theme)
       ELSE UNCHANGED <<themeAttr, themeCalls>>
    /\ styleProps' = applyStyleVariables(styleProps, hostContext.variables)

\* handleMessage, ui/initialize branch
HandleInitialize(data) ==
    /\ Delivered
    /\ data.isObject /\ ~IsResponse(data)
    /\ IsInitialize(data)
    /\ InitializeContext(data)
    /\ LET hostContext == data.params.hostContext IN
        appStateCalls' = IF Truthy(hostContext.appState) /\ config.onAppState
                         THEN Append(appStateCalls, hostContext.appState)
                         ELSE appStateCalls
    /\ outbound' = InitializeSends(outbound, data.id)
    /\ isReady' = TRUE
    /\ initRequests' = [initRequests EXCEPT ![data.id] = @ + 1]
    /\ last' = NoStep
    /\ UNCHANGED <<config, toolResultCalls, toolInputCalls>>
    /\ CorrelatorUnchanged /\ TeardownUnchanged

\* handleMessage, ui/notifications/tool-input branch
HandleToolInput(data) ==
    /\ Delivered
    /\ data.isObject /\ ~IsResponse(data)
    /\ data.method = "ui/notifications/tool-input"
    /\ toolInputCalls' =
          IF config.onToolInput
          THEN Append(toolInputCalls,
                      IF Truthy(data.params.arguments) THEN data.params.arguments
                      ELSE EmptyObject)
          ELSE toolInputCalls
    /\ last' = NoStep
    /\ UNCHANGED <<config, isReady, outbound, toolResultCalls, initRequests>>
    /\ CorrelatorUnchanged /\ DocumentUnchanged /\ TeardownUnchanged

\* skips a payload the callback has already been given
forwardToolResultOnce(calls, payload) ==
    IF \E k \in DOMAIN calls : calls[k] = [payload |-> payload, call |-> 0]
    THEN calls
    ELSE Append(calls, [payload |-> payload, call |-> 0])

\* onToolResult?.(data.params || {}) for a notification
forwardToolResult(calls, payload) == Append(calls, [payload |-> payload, call |-> 0])

\* handleMessage, ui/notifications/tool-result branch
HandleToolResult(data) ==
    /\ Delivered
    /\ data.isObject /\ ~IsResponse(data)
    /\ data.method = "ui/notifications/tool-result"
    /\ toolResultCalls' =
          IF config.onToolResult
          THEN forwardToolResult(toolResultCalls,
                                 IF Truthy(data.params.content) THEN data.params.content
                                 ELSE EmptyObject)
          ELSE toolResultCalls
    /\ last' = NoStep
    /\ UNCHANGED <<config, isReady, outbound, toolInputCalls, initRequests>>
    /\ CorrelatorUnchanged /\ DocumentUnchanged /\ TeardownUnchanged

ContextChangedUnguarded(data) ==
    /\ IF data.params.theme # Undef
       THEN applyTheme(data.params.theme)
       ELSE UNCHANGED <<themeAttr, themeCalls>>
    /\ styleProps' = applyStyleVariables(styleProps, data.params.variables)

\* host-context-changed branch: theme and style variables of params
ContextChanged(data) ==
    /\ IF Truthy(data.params.theme)
       THEN applyTheme(data.params.theme)
       ELSE UNCHANGED <<themeAttr, themeCalls>>
    /\ styleProps' = applyStyleVariables(styleProps, data.params.variables)

\* handleMessage, ui/notifications/host-context-changed branch
HandleContextChanged(data) ==
    /\ Delivered
    /\ data.isObject /\ ~IsResponse(data)
    /\ data.method = "ui/notifications/host-context-changed"
    /\ ContextChanged(data)
    /\ last' = NoStep
    /\ UNCHANGED <<config, isReady, outbound, toolResultCalls, toolInputCalls,
                   appStateCalls, initRequests>>
    /\ CorrelatorUnchanged /\ TeardownUnchanged

\* what the cleanup promise returned by onTeardown may do
HookFates == {"throws", "settles", "stuck"}

TeardownResponse(id) == ResponseEnvelope(id, EmptyObject)

NotAwaitingHook(out, id) == sendMessage(out, TeardownResponse(id))

\* handleTeardown suspended at await onTeardown(): nothing is posted
AwaitingHook(out, id) == out

\* handleTeardown, rest of the try block after the await
TryBlock(out, id) == sendMessage(out, TeardownResponse(id))

CatchBlockSilent(out, id) == out

\* handleTeardown, catch block
CatchBlock(out, id) == sendMessage(out, TeardownResponse(id))

IsTeardownRequestAnyId(data) == data.method = "ui/resource-teardown"

\* data.method === "ui/resource-teardown" && data.id !== undefined
IsTeardownRequest(data) == data.method = "ui/resource-teardown" /\ data.id # NoId

\* handleMessage, ui/resource-teardown branch, up to the first await of
\* handleTeardown (to its end when no hook is registered or the hook throws)
HandleTeardown(data, fate) ==
    /\ Delivered
    /\ data.isObject /\ ~IsResponse(data)
    /\ IsTeardownRequest(data)
    /\ teardownRequests' = [teardownRequests EXCEPT ![data.id] = @ + 1]
    /\ IF ~config.onTeardown
       THEN /\ fate = "settles"
            /\ outbound' = TryBlock(outbound, data.id)
            /\ UNCHANGED <<hooksAwaited, hooksStuck, hookCalls>>
       ELSE /\ hookCalls' = hookCalls + 1
            /\ CASE fate = "throws" ->
                      /\ outbound' = CatchBlock(outbound, data.id)
                      /\ UNCHANGED <<hooksAwaited, hooksStuck>>
                 [] fate = "settles" ->
                      /\ hooksAwaited' = [hooksAwaited EXCEPT ![data.id] = @ + 1]
                      /\ outbound' = AwaitingHook(outbound, data.id)
                      /\ UNCHANGED hooksStuck
                 [] fate = "stuck" ->
                      /\ hooksStuck' = [hooksStuck EXCEPT ![data.id] = @ + 1]
                      /\ outbound' = AwaitingHook(outbound, data.id)
                      /\ UNCHANGED hooksAwaited
    /\ last' = NoStep
    /\ UNCHANGED <<config, isReady, toolResultCalls, toolInputCalls, initRequests>>
    /\ CorrelatorUnchanged /\ DocumentUnchanged

\* handleTeardown after await onTeardown(): the hook's promise settles
\* (fulfilled: rest of the try block; rejected: the catch block)
HookSettles(id, outcome) ==
    /\ hooksAwaited[id] > 0
    /\ hooksAwaited' = [hooksAwaited EXCEPT ![id] = @ - 1]
    /\ outbound' = IF outcome = "hook-resolved"
                   THEN TryBlock(outbound, id)
                   ELSE CatchBlock(outbound, id)
    /\ last' = Step(outcome, id)
    /\ UNCHANGED <<config, isReady, toolResultCalls, toolInputCalls, initRequests,
                   hooksStuck, hookCalls, teardownRequests, inboundCount>>
    /\ CorrelatorUnchanged /\ DocumentUnchanged

\* handleMessage, fall-through: nothing but an optional console.log
HandleUnhandled(data) ==
    /\ Delivered
    /\ data.isObject /\ ~IsResponse(data)
    /\ data.method \notin {"ui/initialize", "ui/notifications/tool-input",
                           "ui/notifications/tool-result",
                           "ui/notifications/host-context-changed"}
    /\ ~IsTeardownRequest(data)
    /\ last' = Step("ignored", NoId)
    /\ UNCHANGED <<config, isReady, outbound, toolResultCalls, toolInputCalls, initRequests>>
    /\ CorrelatorUnchanged /\ DocumentUnchanged /\ TeardownUnchanged

\* handleMessage as a whole: the branch the payload is routed to
HandleMessage(data) ==
    \/ HandleNonObject(data)
    \/ HandleResponse(data)
    \/ HandleInitialize(data)
    \/ HandleToolInput(data)
    \/ HandleToolResult(data)
    \/ HandleContextChanged(data)
    \/ \E fate \in HookFates : HandleTeardown(data, fate)
    \/ HandleUnhandled(data)

Next ==
    \/ \E c \in ToolCalls : callTool(c[1], c[2])
    \/ \E id \in RequestIds : RequestTimeout(id)
    \/ \E data \in InboundMessages : HandleNonObject(data)
    \/ \E data \in InboundMessages : HandleResponse(data)
    \/ \E data \in InboundMessages : HandleInitialize(data)
    \/ \E data \in InboundMessages : HandleToolInput(data)
    \/ \E data \in InboundMessages : HandleToolResult(data)
    \/ \E data \in InboundMessages : HandleContextChanged(data)
    \/ \E data \in InboundMessages, fate \in HookFates : HandleTeardown(data, fate)
    \/ \E id \in HostRequestIds, o \in {"hook-resolved", "hook-rejected"} : HookSettles(id, o)
    \/ \E data \in InboundMessages : HandleUnhandled(data)

Spec == Init /\ [][Next]_vars

\* the event loop runs every due timer and every settled promise's continuation
FairSpec ==
    /\ Spec
    /\ \A id \in RequestIds : WF_vars(RequestTimeout(id))
    /\ \A id \in HostRequestIds : WF_vars(\E o \in {"hook-resolved", "hook-rejected"} : HookSettles(id, o))

\* ------------------------------------------- requests against teardown
\* the request correlator running while the host answers, stays silent or
\* tears the panel down; timers and settled cleanup promises are run
CorrelatorNext ==
    \/ \E c \in ToolCalls : callTool(c[1], c[2])
    \/ \E id \in RequestIds : RequestTimeout(id)
    \/ \E data \in ResponseMessages : HandleResponse(data)
    \/ \E data \in TeardownMessages, fate \in HookFates : HandleTeardown(data, fate)
    \/ \E id \in HostRequestIds, o \in {"hook-resolved", "hook-rejected"} : HookSettles(id, o)

CorrelatorFairSpec ==
    /\ Init /\ [][CorrelatorNext]_vars
    /\ \A id \in RequestIds : WF_vars(RequestTimeout(id))
    /\ \A id \in HostRequestIds : WF_vars(\E o \in {"hook-resolved", "hook-rejected"} : HookSettles(id, o))

\* ------------------------------------------- host-context side effects
\* the handshake and host-context-changed paths over every kind of theme
\* value and several variable mappings
ThemeValues == {Undef, "", "light", "dark", "sepia"}
BgNew == [n \in StyleNames |-> IF n = "--bg" THEN "v2" ELSE Undef]
DocStyleMaps == {NoVars, BgOnly, FgOnly, BgNew}

DocInitializeMessages ==
    { Msg(1, "ui/initialize", Undef, NoError,
          [NoParams EXCEPT !.hostContext = [theme |-> t, variables |-> v, appState |-> Undef]]) :
        t \in ThemeValues, v \in DocStyleMaps }

DocContextChangedMessages ==
    { Msg(NoId, "ui/notifications/host-context-changed", Undef, NoError,
          [NoParams EXCEPT !.theme = t, !.variables = v]) :
        t \in ThemeValues, v \in DocStyleMaps }

DocMessages == DocInitializeMessages \cup DocContextChangedMessages

DocNext ==
    \/ \E data \in DocInitializeMessages : HandleInitialize(data)
    \/ \E data \in DocContextChangedMessages : HandleContextChanged(data)

DocSpec == Init /\ [][DocNext]_vars

\* ================================================================ claims
\* everything but the history variables
programVars == <<config, isReady, requestIdRef, pendingRequestsRef, timers, outbound,
                 settled, toolResultCalls, toolInputCalls, themeAttr, themeCalls,
                 styleProps, appStateCalls, hooksAwaited, hooksStuck, hookCalls>>

Sent(envelope) == Cardinality({k \in DOMAIN outbound : outbound[k] = envelope})
CallPositions == {k \in DOMAIN outbound : outbound[k].method = "tools/call"}
InitializedSent ==
    Cardinality({k \in DOMAIN outbound : outbound[k].method = "ui/notifications/initialized"})
ResultCallbacksOf(i) == {k \in DOMAIN toolResultCalls : toolResultCalls[k].call = i}
TimedOut == Rejected("Request timeout")
Outcomes(i) == {settled[i][k] : k \in DOMAIN settled[i]}

\* C1: no tools/call envelope is on the outbound channel while the session
\* is not Ready (a callTool before the handshake is rejected or deferred).
C1_NoCallBeforeReady == ~isReady => CallPositions = {}

\* C2: every request id has at most one terminal outcome (resolved, rejected
\* by a host error, or rejected by timeout), whatever responses, duplicates
\* and timer expiries occur.
C2_SettledAtMostOnce == \A i \in RequestIds : Len(settled[i]) <= 1

\* a request was answered, its timer then expired and a duplicate response came
C2_Witness ==
    \E i \in RequestIds :
        /\ Len(settled[i]) = 1 /\ settled[i][1].kind = "resolved"
        /\ i \notin timers
        /\ last = Step("response-dropped", i)

\* C3: a request whose timer expires with no response is rejected exactly
\* once with "Request timeout" and leaves the pending map; a response with
\* that id arriving afterwards neither resolves nor rejects it.
C3_TimeoutRejectsOnce ==
    \A i \in RequestIds :
        /\ (i < requestIdRef /\ i \notin timers) =>
              (i \notin pendingRequestsRef /\ settled[i] # <<>>)
        /\ (TimedOut \in Outcomes(i)) =>
              (settled[i] = <<TimedOut>> /\ i \notin pendingRequestsRef /\ i \notin timers)

\* a late response for a timed-out id has just been delivered
C3_Witness ==
    \E i \in RequestIds : settled[i] = <<TimedOut>> /\ last = Step("response-dropped", i)

\* C4: a response whose id is not in the pending map changes nothing: not the
\* pending map, the session state, the outbound channel, nor any callback log.
C4_UnmatchedResponseNoEffect ==
    [][\A d \in InboundMessages :
          (d.isObject /\ IsResponse(d) /\ d.id \notin pendingRequestsRef /\ HandleResponse(d))
              => UNCHANGED programVars]_vars

\* an unmatched response was delivered while another request was pending
C4_Witness == last.kind = "response-dropped" /\ pendingRequestsRef # {}

\* C5: the ids of the tools/call requests sent are strictly increasing (hence
\* distinct and never reused) and the first one is 1.
C5_IdsIncreasing ==
    \A k \in CallPositions :
        /\ (\A j \in CallPositions : j >= k) => outbound[k].id = 1
        /\ \A j \in CallPositions : j < k => outbound[j].id < outbound[k].id

\* a second id was allocated after the first request had been settled
C5_Witness == Cardinality(CallPositions) = 2 /\ settled[1] # <<>> /\ settled[2] = <<>>

\* C6: every ui/initialize handled has produced exactly one response with the
\* request's id and exactly one initialized notification, and the session is Ready.
C6_Handshake ==
    /\ \A i \in HostRequestIds : Sent(ResponseEnvelope(i, Capabilities)) = initRequests[i]
    /\ InitializedSent = initRequests[NoId] + initRequests[1] + initRequests[2]
    /\ (\E i \in HostRequestIds : initRequests[i] > 0) => isReady

\* a ui/initialize request with id 2 has been handled
C6_Witness == initRequests[2] = 1 /\ Sent(ResponseEnvelope(2, Capabilities)) = 1

\* C7: every teardown request whose cleanup hook threw, rejected, succeeded or
\* was not registered has exactly one empty success response with its id.
C7_TeardownResponse ==
    \A i \in HostRequestIds \ {NoId} :
        Sent(TeardownResponse(i)) + hooksAwaited[i] + hooksStuck[i] = teardownRequests[i]

\* a cleanup hook has just rejected and the response is on the channel
C7_Witness ==
    \E i \in HostRequestIds :
        last = Step("hook-rejected", i) /\ Sent(TeardownResponse(i)) = teardownRequests[i]

\* C8: every teardown request is eventually acknowledged, whatever the hook
\* does, a hook that never settles included.
C8_TeardownEventuallyAcked ==
    \A i \in HostRequestIds \ {NoId} :
        (teardownRequests[i] > 0) ~> (Sent(TeardownResponse(i)) = teardownRequests[i])

\* C9: a matching success response resolves the call with exactly the
\* response's result and invokes the registered result callback once with it.
C9_SuccessRoundTrip ==
    /\ [][\A d \in InboundMessages :
            (/\ d.isObject /\ d.id \in pendingRequestsRef
             /\ d.result # Undef /\ d.error.kind = "undefined"
             /\ HandleResponse(d))
            => /\ settled'[d.id] = <<Resolved(d.result)>>
               /\ toolResultCalls' =
                    IF config.onToolResult
                    THEN Append(toolResultCalls, [payload |-> d.result, call |-> d.id])
                    ELSE toolResultCalls]_vars
    /\ [](\A i \in RequestIds : Cardinality(ResultCallbacksOf(i)) <= 1)

\* a call was resolved with R2 and the callback received R2
C9_Witness ==
    \E i \in RequestIds :
        /\ settled[i] = <<Resolved("R2")>>
        /\ \E k \in ResultCallbacksOf(i) : toolResultCalls[k].payload = "R2"

\* C10 as stated: a matching response with an error object rejects the call
\* with the message the host supplied and removes the id.
C10_RejectsWithHostMessage ==
    [][\A d \in InboundMessages :
          (d.isObject /\ d.id \in pendingRequestsRef /\ d.error.kind = "object"
           /\ HandleResponse(d))
          => /\ settled'[d.id] = <<Rejected(d.error.message)>>
             /\ d.id \notin pendingRequestsRef']_vars

\* C10 amended: a matching response with an error object rejects the call
\* (never resolves it) with the host's message, or with "Unknown error" when
\* the error object has no message or an empty one, and removes the id.
C10_RejectsWithMessageOrUnknown ==
    [][\A d \in InboundMessages :
          (d.isObject /\ d.id \in pendingRequestsRef /\ d.error.kind = "object"
           /\ HandleResponse(d))
          => /\ settled'[d.id] =
                  <<Rejected(IF d.error.message \in {Undef, ""}
                             THEN "Unknown error" ELSE d.error.message)>>
             /\ d.id \notin pendingRequestsRef']_vars

\* calls were rejected, one with the host's message, one with the fallback
C10_Witness ==
    /\ pendingRequestsRef = {}
    /\ \E i, j \in RequestIds :
          settled[i] = <<Rejected("boom")>> /\ settled[j] = <<Rejected("Unknown error")>>

\* C11: with several requests pending, a response settles only the request
\* whose id it carries, and that call receives this response's result; no
\* other request is resolved, rejected or removed, in any delivery order.
C11_ResponseSettlesOwnId ==
    [][\A d \in ResponseMessages :
          HandleResponse(d)
          => /\ \A j \in RequestIds \ {d.id} :
                   /\ settled'[j] = settled[j]
                   /\ (j \in pendingRequestsRef') = (j \in pendingRequestsRef)
             /\ \A k \in (DOMAIN toolResultCalls') \ (DOMAIN toolResultCalls) :
                   toolResultCalls'[k].call = d.id
             /\ (d.id \in pendingRequestsRef /\ d.error.kind # "object")
                   => settled'[d.id] = Append(settled[d.id], Resolved(d.result))]_vars

\* two requests were pending together; the second was answered first
C11_Witness ==
    /\ settled[1] = <<Resolved("R1")>> /\ settled[2] = <<Resolved("R2")>>
    /\ Len(toolResultCalls) = 2 /\ toolResultCalls[1].call = 2

TeardownAcknowledged ==
    \E k \in DOMAIN outbound : \E i \in HostRequestIds : outbound[k] = TeardownResponse(i)

\* C12: Closed is terminal: once a teardown response has been sent, no further
\* envelope is posted, whatever callTool, ui/initialize or teardown comes next.
C12_ClosedIsTerminal == [][TeardownAcknowledged => outbound' = outbound]_vars

\* C13: tool-input, tool-result and host-context-changed notifications are
\* processed only once the handshake has completed: while the session is not
\* Ready no notification callback has run and no theme or style is applied.
C13_NotificationsOnlyWhenReady ==
    ~isReady =>
        /\ toolInputCalls = <<>>
        /\ \A k \in DOMAIN toolResultCalls : toolResultCalls[k].call # 0
        /\ themeAttr = Undef /\ themeCalls = <<>>
        /\ styleProps = [n \in StyleNames |-> Absent]

\* C14: tool-result notifications are not deduplicated: every delivery, a
\* repeated one included, invokes the registered result callback once more
\* with that notification's payload.
C14_ToolResultNotDeduplicated ==
    [][\A d \in ToolResultMessages :
          (HandleToolResult(d) /\ config.onToolResult)
          => toolResultCalls' =
                Append(toolResultCalls, [payload |-> d.params.content, call |-> 0])]_vars

\* the same notification was delivered twice and the callback ran twice
C14_Witness ==
    toolResultCalls = <<[payload |-> "P1", call |-> 0], [payload |-> "P1", call |-> 0]>>

\* the theme value a handshake or host-context-changed message carries
ThemeOf(d) == IF d.method = "ui/initialize" THEN d.params.hostContext.theme ELSE d.params.theme
AppliesContext(d) == HandleInitialize(d) \/ HandleContextChanged(d)

\* C15 as stated: whatever theme value a handshake or host-context-changed
\* message carries is recorded normalized: "light" as light, any other value
\* as dark.
C15_AnyThemeNormalized ==
    [][\A d \in DocMessages :
          (ThemeOf(d) # Undef /\ AppliesContext(d))
          => themeAttr' = IF ThemeOf(d) = "light" THEN "light" ELSE "dark"]_vars

\* C15 amended: a non-empty theme value is recorded as light when it is
\* "light" and as dark otherwise; an empty or absent theme leaves the recorded
\* theme as it was; the recorded theme, once set, is always light or dark.
C15_NonEmptyThemeNormalized ==
    /\ [][\A d \in DocMessages :
            AppliesContext(d)
            => themeAttr' = IF ThemeOf(d) \in {Undef, ""} THEN themeAttr
                            ELSE IF ThemeOf(d) = "light" THEN "light" ELSE "dark"]_vars
    /\ [](themeAttr \in {Undef, "light", "dark"})

\* a light theme was recorded, then another value collapsed to dark
C15_Witness == themeAttr = "dark" /\ themeCalls = <<"light", "dark">>

\* C16: every pending request is eventually released: given that timers
\* fire, no id stays in the pending map forever, even if the host never
\* responds and a teardown happens meanwhile.
C16_PendingEventuallyReleased ==
    \A i \in RequestIds : (i \in pendingRequestsRef) ~> (i \notin pendingRequestsRef)

\* a request was released by its timeout while a teardown hook hangs
C16_Witness ==
    \E i \in RequestIds, j \in HostRequestIds :
        settled[i] = <<TimedOut>> /\ i \notin pendingRequestsRef /\ hooksStuck[j] > 0

\* C17: a rejection of one call, by a host error or by the timeout, is not
\* fatal: the step that rejects request i leaves the readiness flag, the id
\* counter and the outbound channel as they were and removes only i from the
\* pending map; after a rejection callTool still posts a request under an id
\* no earlier request carried, and a matching result response resolves it.
RejectionOccurred == \E i \in RequestIds : \E o \in Outcomes(i) : o.kind = "rejected"

C17_RejectionNotFatal ==
    [][/\ \A i \in RequestIds :
            (/\ Len(settled'[i]) = Len(settled[i]) + 1
             /\ settled'[i][Len(settled'[i])].kind = "rejected")
            => /\ isReady' = isReady
               /\ requestIdRef' = requestIdRef
               /\ outbound' = outbound
               /\ pendingRequestsRef' = pendingRequestsRef \ {i}
               /\ \A j \in RequestIds \ {i} : settled'[j] = settled[j]
       /\ RejectionOccurred =>
            /\ \A c \in ToolCalls : callTool(c[1], c[2]) =>
                  /\ outbound' = Append(outbound,
                                        RequestEnvelope(requestIdRef, "tools/call", c[1], c[2]))
                  /\ \A k \in CallPositions : outbound[k].id < requestIdRef
                  /\ requestIdRef \in pendingRequestsRef'
            /\ \A d \in ResponseMessages :
                  (HandleResponse(d) /\ d.id \in pendingRequestsRef /\ d.error.kind # "object")
                  => settled'[d.id] = <<Resolved(d.result)>>
      ]_vars

\* request 1 was rejected, request 2 was sent afterwards and resolved
C17_Witness ==
    /\ Len(settled[1]) = 1 /\ settled[1][1].kind = "rejected"
    /\ settled[2] = <<Resolved("R2")>>
    /\ Cardinality(CallPositions) = 2

\* C18: handling a payload that is not an object, that has neither a
\* response shape nor a method, or whose method is not one of the routed
\* names changes nothing: the pending map, timers and outcomes, the readiness
\* flag, the outbound channel, the document, every callback's call list and
\* the handshake and teardown bookkeeping are all as before.
C18_MalformedIgnored ==
    [][\A d \in OtherMessages :
          HandleMessage(d) =>
            /\ UNCHANGED programVars
            /\ UNCHANGED <<initRequests, teardownRequests>>
      ]_vars

\* a payload was dropped while the session was ready with a request in flight
C18_Witness ==
    /\ last = Step("ignored", NoId)
    /\ isReady /\ pendingRequestsRef # {}
    /\ outbound # <<>>

\* C19: handling one ui/initialize request applies the host context, then
\* posts the correlated capabilities response, then the initialized
\* notification, and ends with the session ready: the step appends exactly
\* <<response, notification>> in that order to the channel and leaves the
\* theme, style variables and restored app state applied and isReady set;
\* on the channel an initialized notification always directly follows a
\* capabilities response, and the session is never ready before both are sent.
InitializedEnvelope == sendNotification(<<>>, "ui/notifications/initialized")[1]

HandshakeResponses == {ResponseEnvelope(i, Capabilities) : i \in HostRequestIds}

C19_InitializeOrder ==
    /\ [][\A d \in InitializeMessages :
            HandleInitialize(d) =>
              LET hostContext == d.params.hostContext IN
              /\ outbound' = outbound \o <<ResponseEnvelope(d.id, Capabilities),
                                            InitializedEnvelope>>
              /\ isReady'
              /\ Truthy(hostContext.theme) =>
                    themeAttr' = NormalizeTheme(hostContext.theme)
              /\ styleProps' = applyStyleVariables(styleProps, hostContext.variables)
              /\ (Truthy(hostContext.appState) /\ config.onAppState) =>
                    appStateCalls' = Append(appStateCalls, hostContext.appState)
         ]_vars
    /\ [](\A k \in DOMAIN outbound :
            outbound[k] = InitializedEnvelope =>
               k > 1 /\ outbound[k - 1] \in HandshakeResponses)
    /\ [](isReady =>
            \E k \in DOMAIN outbound :
               /\ outbound[k] = InitializedEnvelope
               /\ k = Len(outbound) \/ outbound[k + 1] # InitializedEnvelope)

\* the handshake with a full host context was handled after a tool call was
\* already on the channel
C19_Witness ==
    /\ initRequests[1] = 1 /\ isReady
    /\ Len(outbound) = 3
    /\ outbound[1].method = "tools/call"
    /\ outbound[2] = ResponseEnvelope(1, Capabilities)
    /\ outbound[3] = InitializedEnvelope
    /\ themeAttr = "light" /\ styleProps["--bg"] = "v1"

\* C20: with a cleanup hook registered, a teardown response is posted only
\* by a step in which an invoked hook finishes (its promise settles, or the
\* call throws); the step that invokes a hook and suspends on it posts
\* nothing, so the responses never outnumber the hooks that have finished.
TeardownResponsesSent ==
    Cardinality({k \in DOMAIN outbound :
                   \E i \in HostRequestIds : outbound[k] = TeardownResponse(i)})

HooksUnsettled ==
    hooksAwaited[1] + hooksAwaited[2] + hooksStuck[1] + hooksStuck[2]

C20_ResponseAfterHookSettled ==
    /\ [][config.onTeardown =>
            \A i \in HostRequestIds \ {NoId} :
               /\ Sent(TeardownResponse(i))' > Sent(TeardownResponse(i)) =>
                     \/ /\ hooksAwaited'[i] = hooksAwaited[i] - 1
                        /\ hookCalls' = hookCalls
                        /\ last'.kind \in {"hook-resolved", "hook-rejected"}
                     \/ /\ hookCalls' = hookCalls + 1
                        /\ UNCHANGED <<hooksAwaited, hooksStuck>>
               /\ (hooksAwaited'[i] + hooksStuck'[i] > hooksAwaited[i] + hooksStuck[i]) =>
                     outbound' = outbound
         ]_vars
    /\ [](config.onTeardown => TeardownResponsesSent + HooksUnsettled = hookCalls)

\* the hook of teardown request 2 has resolved and its response is on the
\* channel while the hook of request 1 is still suspended, unanswered
C20_Witness ==
    /\ config.onTeardown
    /\ last = Step("hook-resolved", 2)
    /\ Sent(TeardownResponse(2)) = 1
    /\ hooksAwaited[1] = 1 /\ Sent(TeardownResponse(1)) = 0

\* C21: a pending request leaves the pending map, or gets an outcome, only in
\* a step that handles a response carrying its own id or that runs its own
\* timer; the handshake, notifications, other ids' responses and timers,
\* further tool calls and teardown (request and hook settlement alike) leave
\* it pending and unsettled.
TeardownStep ==
    \/ \E d \in TeardownMessages, fate \in HookFates : HandleTeardown(d, fate)
    \/ \E i \in HostRequestIds, o \in {"hook-resolved", "hook-rejected"} : HookSettles(i, o)

C21_OnlyOwnResponseOrTimeout ==
    [][/\ \A i \in RequestIds :
            (/\ i \in pendingRequestsRef
             /\ i \notin pendingRequestsRef' \/ settled'[i] # settled[i])
            => \/ RequestTimeout(i)
               \/ \E d \in ResponseMessages : d.id = i /\ HandleResponse(d)
       /\ (pendingRequestsRef' # pendingRequestsRef \/ settled' # settled \/ timers' # timers)
            => ~TeardownStep
      ]_vars

\* request 1 is still in flight after request 2 timed out and a teardown
\* request was answered
C21_Witness ==
    /\ pendingRequestsRef = {1} /\ settled[1] = <<>>
    /\ settled[2] = <<TimedOut>>
    /\ Sent(TeardownResponse(1)) = 1

\* C22: a callTool(name, arguments) step appends exactly one envelope to the
\* channel, a tools/call request with that name and arguments under the id it
\* has just allocated, with the id already registered as pending; every
\* allocated id has exactly one request envelope, and an id whose request is
\* on the channel and has no outcome yet is in the pending map.
EnvelopesOf(i) == {k \in CallPositions : outbound[k].id = i}

C22_OneEnvelopePerCall ==
    /\ [][\A c \in ToolCalls :
            callTool(c[1], c[2]) =>
              /\ outbound' = outbound \o
                    <<RequestEnvelope(requestIdRef, "tools/call", c[1], c[2])>>
              /\ requestIdRef \notin pendingRequestsRef
              /\ pendingRequestsRef' = pendingRequestsRef \cup {requestIdRef}
         ]_vars
    /\ [](\A i \in RequestIds :
            /\ Cardinality(EnvelopesOf(i)) = IF i < requestIdRef THEN 1 ELSE 0
            /\ (EnvelopesOf(i) # {} /\ settled[i] = <<>>) => i \in pendingRequestsRef)

\* two calls were sent and both are on the channel, registered and unanswered
C22_Witness ==
    /\ outbound = <<RequestEnvelope(1, "tools/call", "todo_add", "{text:milk}"),
                    RequestEnvelope(2, "tools/call", "todo_add", "{text:milk}")>>
    /\ pendingRequestsRef = {1, 2}
    /\ settled[1] = <<>> /\ settled[2] = <<>>

\* C23: isReady changes only in a step that handles a ui/initialize request
\* or belongs to teardown; a step that changes it is never a callTool, a
\* response, a timer expiry or a tool-input, tool-result or
\* host-context-changed notification.
HandshakeStep == \E d \in InitializeMessages : HandleInitialize(d)

C23_SessionStateFrame ==
    [][isReady' # isReady =>
          /\ HandshakeStep \/ TeardownStep
          /\ ~ \E c \in ToolCalls : callTool(c[1], c[2])
          /\ ~ \E d \in ResponseMessages : HandleResponse(d)
          /\ ~ \E i \in RequestIds : RequestTimeout(i)
          /\ ~ \E d \in ToolInputMessages : HandleToolInput(d)
          /\ ~ \E d \in ToolResultMessages : HandleToolResult(d)
          /\ ~ \E d \in ContextChangedMessages : HandleContextChanged(d)
      ]_vars

\* a call was made and timed out and two notifications were dispatched, and
\* the session is still not ready
C23_Witness ==
    /\ ~isReady
    /\ settled[1] = <<TimedOut>>
    /\ Len(toolInputCalls) = 1
    /\ themeAttr = "dark"

\* C24: for the same theme value and the same style-variable mapping, the
\* host-context-changed notification and the ui/initialize request do the
\* same to the document: a step of either leaves the data-theme attribute,
\* the theme callback's call list and the style properties exactly as the
\* other path's context handling would from the same state.
InitializeWith(t, v) ==
    Msg(1, "ui/initialize", Undef, NoError,
        [NoParams EXCEPT !.hostContext = [theme |-> t, variables |-> v, appState |-> Undef]])

ContextChangedWith(t, v) ==
    Msg(NoId, "ui/notifications/host-context-changed", Undef, NoError,
        [NoParams EXCEPT !.theme = t, !.variables = v])

C24_SameContextLogic ==
    [][\A t \in ThemeValues, v \in DocStyleMaps :
          /\ HandleContextChanged(ContextChangedWith(t, v))
                => InitializeContext(InitializeWith(t, v))
          /\ HandleInitialize(InitializeWith(t, v))
                => ContextChanged(ContextChangedWith(t, v))
      ]_vars

\* a handshake and a notification have both applied a context: the
\* properties set by the one and by the other are in the document together
C24_Witness ==
    /\ initRequests[1] = 1 /\ inboundCount = 2
    /\ themeAttr = "dark"
    /\ styleProps["--bg"] = "v1" /\ styleProps["--fg"] = "v2"

\* C25: applying a style-variable mapping sets each property whose entry has
\* a non-empty value to that value and nothing else: a property whose entry
\* is empty or undefined, or that the mapping does not name, keeps the value
\* it had, set or unset.
VariablesOf(d) ==
    IF d.method = "ui/initialize" THEN d.params.hostContext.variables ELSE d.params.variables

C25_OnlyNonEmptyApplied ==
    [][\A d \in DocMessages :
          AppliesContext(d) =>
            \A n \in StyleNames :
               styleProps'[n] = IF VariablesOf(d)[n] \in {Absent, Undef, ""}
                                THEN styleProps[n]
                                ELSE VariablesOf(d)[n]
      ]_vars

\* two notifications applied mappings: one set --bg, the other set --fg and
\* named --bg with an empty value, which was skipped
C25_Witness ==
    /\ initRequests[1] = 0 /\ inboundCount = 2
    /\ styleProps["--bg"] = "v1" /\ styleProps["--fg"] = "v2"

\* C26: a payload with an id and a result that also carries the method
\* ui/initialize or ui/resource-teardown is handled as a response, the
\* response shape being tested before the method: in every state only the
\* response branch can take it, and the step settles the pending request of
\* that id or drops the payload, and neither answers a handshake or a teardown
\* (nothing is posted, isReady and the cleanup hook are left alone) nor
\* invokes a notification callback or touches the document.
MethodResponses == {d \in ResponseMessages : d.method # NoMethod}

C26_ResponseShapeFirst ==
    /\ [](\A d \in MethodResponses :
            /\ ~ ENABLED HandleNonObject(d)
            /\ ~ ENABLED HandleInitialize(d)
            /\ ~ ENABLED HandleToolInput(d)
            /\ ~ ENABLED HandleToolResult(d)
            /\ ~ ENABLED HandleContextChanged(d)
            /\ ~ ENABLED (\E fate \in HookFates : HandleTeardown(d, fate))
            /\ ~ ENABLED HandleUnhandled(d)
            /\ inboundCount < MaxInbound => ENABLED HandleResponse(d))
    /\ [][\A d \in MethodResponses :
            HandleResponse(d) =>
              /\ outbound' = outbound /\ isReady' = isReady
              /\ UNCHANGED <<initRequests, teardownRequests, hookCalls, hooksAwaited, hooksStuck>>
              /\ UNCHANGED <<toolInputCalls, themeAttr, themeCalls, styleProps, appStateCalls>>
              /\ \A k \in (DOMAIN toolResultCalls') \ (DOMAIN toolResultCalls) :
                     toolResultCalls'[k].call = d.id
              /\ IF d.id \in pendingRequestsRef
                 THEN /\ pendingRequestsRef' = pendingRequestsRef \ {d.id}
                      /\ Len(settled'[d.id]) = Len(settled[d.id]) + 1
                 ELSE /\ UNCHANGED <<pendingRequestsRef, settled, toolResultCalls>>
                      /\ last' = Step("response-dropped", d.id)
         ]_vars

\* one response settled request 1 and a second one for the same id was
\* dropped; no handshake or teardown has been answered
C26_Witness ==
    /\ settled[1] = <<Resolved("R1")>>
    /\ last = Step("response-dropped", 1)
    /\ ~isReady /\ outbound = <<RequestEnvelope(1, "tools/call", "todo_add", "{text:milk}")>>

\* C27: the handshake is not guarded by the session state: a ui/initialize
\* request can be handled in every state, ready or not, and each handling
\* adds one capabilities response with the request's id and one initialized
\* notification to the channel and leaves isReady set.
C27_HandshakeRepeats ==
    /\ [][\A d \in InitializeMessages :
            HandleInitialize(d) =>
              /\ Sent(ResponseEnvelope(d.id, Capabilities))' =
                    Sent(ResponseEnvelope(d.id, Capabilities)) + 1
              /\ InitializedSent' = InitializedSent + 1
              /\ Len(outbound') = Len(outbound) + 2
              /\ isReady'
         ]_vars
    /\ [](inboundCount < MaxInbound =>
            \A d \in InitializeMessages : ENABLED HandleInitialize(d))

\* the same ui/initialize request was handled twice, the second time when
\* already ready
C27_Witness ==
    /\ initRequests[1] = 2 /\ isReady
    /\ Sent(ResponseEnvelope(1, Capabilities)) = 2
    /\ InitializedSent = 2

\* C28: a call whose promise was rejected, by an error response or by the
\* timeout, has no invocation of the result callback made on its behalf: the
\* step that rejects it invokes nothing, and every invocation made by
\* callTool belongs to a call that was fulfilled.
C28_NoCallbackOnRejection ==
    /\ [](\A i \in RequestIds :
            (settled[i] # <<>> /\ settled[i][1].kind = "rejected")
               => ResultCallbacksOf(i) = {})
    /\ [][\A i \in RequestIds :
            (settled[i] = <<>> /\ settled'[i] # <<>> /\ settled'[i][1].kind = "rejected")
               => toolResultCalls' = toolResultCalls
         ]_vars

\* with the result callback registered, one call was rejected by the host
\* and another by the timeout, and the callback was never invoked
C28_Witness ==
    /\ config.onToolResult
    /\ settled[1] = <<Rejected("boom")>> /\ settled[2] = <<TimedOut>>
    /\ toolResultCalls = <<>>

\* C29: a ui/resource-teardown message without an id is not a teardown
\* request: handling it does not invoke the cleanup hook, posts nothing,
\* records no teardown and leaves isReady and the rest of the program state
\* as they were.
TeardownWithoutId == Msg(NoId, "ui/resource-teardown", Undef, NoError, NoParams)

C29_TeardownWithoutIdIgnored ==
    [][HandleMessage(TeardownWithoutId) =>
          /\ UNCHANGED <<hookCalls, hooksAwaited, hooksStuck, teardownRequests>>
          /\ outbound' = outbound
          /\ isReady' = isReady
          /\ UNCHANGED programVars
          /\ last' = Step("ignored", NoId)
      ]_vars

\* with a cleanup hook registered, a message was ignored: the hook has never
\* been invoked and nothing has been posted
C29_Witness ==
    /\ TeardownWithoutId \in TeardownMessages
    /\ last = Step("ignored", NoId)
    /\ config.onTeardown /\ hookCalls = 0
    /\ outbound = <<>> /\ ~isReady

\* C30: a response for a pending id that carries a result together with an
\* error object rejects the call with the error's message (or the fallback):
\* the promise gets that rejection as its only outcome and the step invokes
\* no result callback, so the result reaches neither the caller nor the
\* callback.
ResultAndErrorResponses ==
    {d \in ResponseMessages : d.result # Undef /\ d.error.kind = "object"}

C30_ErrorBeatsResult ==
    [][\A d \in ResultAndErrorResponses :
          (d.id \in pendingRequestsRef /\ HandleResponse(d))
          => /\ settled'[d.id] = <<Rejected(ErrorMessage(d.error))>>
             /\ Resolved(d.result) \notin {settled'[d.id][k] : k \in DOMAIN settled'[d.id]}
             /\ toolResultCalls' = toolResultCalls
      ]_vars

\* with the result callback registered, request 2 was rejected with the
\* host's message while request 1 was fulfilled: the callback ran for
\* request 1 only
C30_Witness ==
    /\ config.onToolResult
    /\ settled[2] = <<Rejected("boom")>>
    /\ settled[1] = <<Resolved("R1")>>
    /\ Len(toolResultCalls) = 1 /\ toolResultCalls[1].call = 1

\* C31: the layer does not block while a cleanup hook is outstanding.  While
\* a hook is unsettled every response, tool-result notification and teardown
\* request can still be handled; a matching response then settles its pending
\* request, a tool-result notification invokes the registered result callback,
\* and a teardown request invokes the hook once more on its own behalf; a
\* response posted when a hook settles carries that request's id; and a
\* request that arrived while another hook was outstanding is answered, so
\* in the end at most one hook (the earliest) is still unsettled.
HookOutstanding == HooksUnsettled > 0

TeardownRequestMessages == {d \in TeardownMessages : d.id # NoId}

C31_ProcessedWhileHookOutstanding ==
    /\ []((HookOutstanding /\ inboundCount < MaxInbound) =>
            /\ \A d \in ResponseMessages : ENABLED HandleResponse(d)
            /\ \A d \in ToolResultMessages : ENABLED HandleToolResult(d)
            /\ \A d \in TeardownRequestMessages :
                  ENABLED (\E fate \in HookFates : HandleTeardown(d, fate)))
    /\ [][HookOutstanding =>
            /\ \A d \in ResponseMessages :
                  (d.id \in pendingRequestsRef /\ HandleResponse(d)) =>
                     /\ d.id \notin pendingRequestsRef'
                     /\ Len(settled'[d.id]) = Len(settled[d.id]) + 1
            /\ \A d \in ToolResultMessages :
                  (config.onToolResult /\ HandleToolResult(d)) =>
                     Len(toolResultCalls') = Len(toolResultCalls) + 1
            /\ \A d \in TeardownRequestMessages :
                  (\E fate \in HookFates : HandleTeardown(d, fate)) =>
                     /\ hookCalls' = hookCalls + 1
                     /\ \/ outbound' = Append(outbound, TeardownResponse(d.id))
                        \/ hooksAwaited'[d.id] + hooksStuck'[d.id] =
                              hooksAwaited[d.id] + hooksStuck[d.id] + 1
            /\ \A i \in HostRequestIds \ {NoId} :
                  (\E o \in {"hook-resolved", "hook-rejected"} : HookSettles(i, o)) =>
                     outbound' = Append(outbound, TeardownResponse(i))
         ]_vars

\* C31 in full: messages are processed while a hook is outstanding, and
\* every teardown request that arrived while another request's hook was
\* outstanding is eventually answered.
C31_NotBlockedByOutstandingHook ==
    /\ C31_ProcessedWhileHookOutstanding
    /\ <>[](HooksUnsettled <= 1)
====
